---- MODULE Spec2Model ----
(***************************************************************************)
(* Model of the Android UI Automator MCP server:                           *)
(*   - AndroidClient (android_client.py): one lazily created HTTP session, *)
(*     _make_request and the eleven operations built on it;                *)
(*   - UIAutomatorMCPServer (server.py): handle_call_tool and              *)
(*     handle_read_resource, which call the client and serialise what it   *)
(*     returns.                                                            *)
(*                                                                         *)
(* One call is followed from its entry to its result.  A call suspends     *)
(* once, at "async with session.request(...)": everything before that      *)
(* await is one step (Call...), everything after it another (Respond).     *)
(*                                                                         *)
(* Spec follows one call at a time; FairSpec adds that every request ends. *)
(* ClientSpec follows one AndroidClient used by several tasks at once,     *)
(* with close() calls in between.  MainSpec follows the server process     *)
(* (main.py) from its command line to its exit.                            *)
(*                                                                         *)
(* Python values are tagged records, so that None, booleans, integers,     *)
(* strings, dicts and lists stay distinct.  A dict is a function from its  *)
(* keys to values; the insertion order of the keys is not modelled.        *)
(***************************************************************************)
EXTENDS Integers, Sequences, FiniteSets, TLC

VARIABLES
    pc,            \* "idle" | "awaiting" (suspended in session.request) | "done"
    call,          \* the call being followed: interface, name, arguments
    request,       \* the HTTP request this call handed to the session
    outcome,       \* what the backend / transport did with that request
    clientReturn,  \* what the AndroidClient operation gave its caller
    reply,         \* what the server handler gave the protocol layer
    session,       \* AndroidClient.session: "none" | "open" | "closed"
    sent,          \* how many times this call's request went to session.request
    \* One AndroidClient shared by operations in flight at the same time:
    created,       \* how many ClientSession objects were constructed (their ids)
    held,          \* the id of self.session; 0 while it is None
    sessionCloses, \* per session id, how many times its close() was invoked
    tasks,         \* per task, the id of the session its request is on; 0: idle
    returned,      \* the ids _get_session has returned so far
    closeCalls,    \* how many times AndroidClient.close() was called
    taskOutcome,   \* per task, what the backend / transport did with its request
    results,       \* per task, what handle_call_tool returned for its call
    \* The server process (main.py):
    argv,          \* sys.argv
    mainArgs,      \* args in main: what parse_args returned
    phase,         \* "none" | "start" | "serving" | "exited"
    stopped,       \* why the process ended; "" while it has not
    exitCode       \* the exit status; -1 while the process has not ended

callVars == <<pc, call, request, outcome, clientReturn, reply, session, sent>>
clientVars ==
    <<created, held, sessionCloses, tasks, returned, closeCalls, taskOutcome,
      results>>
processVars == <<argv, mainArgs, phase, stopped, exitCode>>
vars == <<callVars, clientVars, processVars>>

---------------------------------------------------------------------------
(* Python values *)

PyNone == [t |-> "None"]
PyBool(b) == [t |-> "bool", b |-> b]
PyInt(n) == [t |-> "int", n |-> n]
PyStr(s) == [t |-> "str", s |-> s]
PyDict(d) == [t |-> "dict", d |-> d]
\* A JSON array body; its elements play no part in the code modelled here.
PyList == [t |-> "list"]

EmptyDict == [k \in {} |-> PyNone]

IsDict(v) == v.t = "dict"

\* bool(v) as Python's "if v:" evaluates it
Truthy(v) ==
    CASE v.t = "None" -> FALSE
      [] v.t = "bool" -> v.b
      [] v.t = "int" -> v.n # 0
      [] v.t = "str" -> v.s # ""
      [] v.t = "dict" -> DOMAIN v.d # {}
      [] OTHER -> FALSE

\* d[k] = v on a dict: the key is added, or its value replaced
SetItem(d, k, v) == [x \in DOMAIN d \cup {k} |-> IF x = k THEN v ELSE d[x]]

\* An exception: its class name, type(e).__name__, and its message, str(e)
Exc(cls, msg) == [cls |-> cls, msg |-> msg]
NoExc == Exc("", "")

\* str(KeyError(k)) is repr(k)
KeyError(k) == Exc("KeyError", "'" \o k \o "'")

---------------------------------------------------------------------------
(* AndroidClient: the request each operation makes *)

base_url == "http://localhost:8080"

\* session.request(method, url, json=data); data None sends no body
HttpRequest(method, endpoint, data) ==
    [method |-> method, url |-> base_url \o endpoint, data |-> data]

NoRequest == [method |-> "", url |-> "", data |-> PyNone]

health_check == HttpRequest("GET", "/health", PyNone)
get_ui_dump == HttpRequest("GET", "/ui/dump", PyNone)
get_ui_dump_xml == HttpRequest("GET", "/ui/dump/xml", PyNone)

click_element(selector) ==
    HttpRequest("POST", "/ui/click", PyDict("selector" :> selector))

\* input_text leaving clear_first to the backend's own default
input_text_without_clear(selector, text, clear_first) ==
    HttpRequest("POST", "/ui/input",
        PyDict(("selector" :> selector) @@ ("text" :> text)))

input_text(selector, text, clear_first) ==
    HttpRequest("POST", "/ui/input",
        PyDict(("selector" :> selector) @@ ("text" :> text)
               @@ ("clear_first" :> clear_first)))

\* scroll storing the selector whether or not one was given
scroll_selector_always(direction, steps, selector) ==
    HttpRequest("POST", "/ui/scroll",
        PyDict(("direction" :> direction) @@ ("steps" :> steps)
               @@ ("selector" :> selector)))

scroll(direction, steps, selector) ==
    LET data == ("direction" :> direction) @@ ("steps" :> steps)
    IN  HttpRequest("POST", "/ui/scroll",
            PyDict(IF Truthy(selector)
                   THEN SetItem(data, "selector", selector)
                   ELSE data))

\* wait_for_element sending its own defaults in place of what it was given
wait_for_element_defaults(selector, timeout, condition) ==
    HttpRequest("POST", "/ui/wait",
        PyDict(("selector" :> selector) @@ ("timeout" :> PyInt(5000))
               @@ ("condition" :> PyStr("visible"))))

wait_for_element(selector, timeout, condition) ==
    HttpRequest("POST", "/ui/wait",
        PyDict(("selector" :> selector) @@ ("timeout" :> timeout)
               @@ ("condition" :> condition)))

press_back == HttpRequest("POST", "/device/back", PyNone)
press_home == HttpRequest("POST", "/device/home", PyNone)
\* press_recent going to the home endpoint
press_recent_as_home == HttpRequest("POST", "/device/home", PyNone)

press_recent == HttpRequest("POST", "/device/recent", PyNone)
get_device_info == HttpRequest("GET", "/device/info", PyNone)

---------------------------------------------------------------------------
(* AndroidClient._make_request: what happens after the request is sent *)

\* What a client operation or a handler gave its caller
Returned(v) == [state |-> "returned", value |-> v, exc |-> NoExc]
Raised(e) == [state |-> "raised", value |-> PyNone, exc |-> e]
NotYet == [state |-> "none", value |-> PyNone, exc |-> NoExc]

\* The body of a response: its raw text, and the value json.loads gives for
\* that text; JsonInvalid when the text is no JSON document
JsonInvalid == [t |-> "invalid"]
Body(text, json) == [text |-> text, json |-> json]
NoBody == Body("", JsonInvalid)

\* The end of "async with session.request(...)": a response, or an exception
Response(status, content_type, body) ==
    [kind |-> "response", status |-> status, content_type |-> content_type,
     body |-> body, exc |-> NoExc]
Failure(e) ==
    [kind |-> "exception", status |-> 0, content_type |-> "", body |-> NoBody,
     exc |-> e]
NoOutcome ==
    [kind |-> "none", status |-> 0, content_type |-> "", body |-> NoBody,
     exc |-> NoExc]

\* Exception classes the model's transport raises that derive from
\* aiohttp.ClientError.  The total timeout of ClientTimeout(total=30) ends
\* the request with asyncio.TimeoutError, which does not derive from it.
ClientErrorClasses ==
    {"ClientConnectorError", "ServerDisconnectedError", "ClientOSError"}

TimeoutError == Exc("TimeoutError", "")
JSONDecodeError ==
    Exc("JSONDecodeError", "Expecting value: line 1 column 1 (char 0)")

\* result["http_status"] = ... on a value that is no dict
ItemAssignmentError(v) ==
    Exc("TypeError",
        IF v.t = "list"
        THEN "list indices must be integers or slices, not str"
        ELSE "'NoneType' object does not support item assignment")

\* lines 49-54: response.json() for application/json, else {"content": text}
\* read_body parsing every body as JSON, whatever the content type
read_body_json_always(response) ==
    IF response.body.json = JsonInvalid
    THEN Raised(JSONDecodeError)
    ELSE Returned(response.body.json)

read_body(response) ==
    IF response.content_type = "application/json"
    THEN IF response.body.json = JsonInvalid
         THEN Raised(JSONDecodeError)
         ELSE Returned(response.body.json)
    ELSE Returned(PyDict("content" :> PyStr(response.body.text)))

HttpErrorStatus == 400

\* set_http_status with "status > 400" for its test
set_http_status_above(result, status) ==
    IF status > HttpErrorStatus
    THEN IF IsDict(result)
         THEN Returned(PyDict(SetItem(result.d, "http_status", PyInt(status))))
         ELSE Raised(ItemAssignmentError(result))
    ELSE Returned(result)

\* set_http_status storing the status only in a result that holds none
set_http_status_if_missing(result, status) ==
    IF status >= HttpErrorStatus
    THEN IF IsDict(result)
         THEN Returned(IF "http_status" \in DOMAIN result.d
                       THEN result
                       ELSE PyDict(SetItem(result.d, "http_status", PyInt(status))))
         ELSE Raised(ItemAssignmentError(result))
    ELSE Returned(result)

\* lines 58-60: on an error status the status is stored in the result
set_http_status(result, status) ==
    IF status >= HttpErrorStatus
    THEN IF IsDict(result)
         THEN Returned(PyDict(SetItem(result.d, "http_status", PyInt(status))))
         ELSE Raised(ItemAssignmentError(result))
    ELSE Returned(result)

\* lines 64-70
client_error(e) ==
    PyDict(("success" :> PyBool(FALSE))
           @@ ("error" :> PyStr("HTTP client error: " \o e.msg))
           @@ ("error_type" :> PyStr("client_error")))

\* unknown_error without its success field
unknown_error_bare(e) ==
    PyDict(("error" :> PyStr("Unexpected error: " \o e.msg))
           @@ ("error_type" :> PyStr("unknown_error")))

\* lines 71-77
unknown_error(e) ==
    PyDict(("success" :> PyBool(FALSE))
           @@ ("error" :> PyStr("Unexpected error: " \o e.msg))
           @@ ("error_type" :> PyStr("unknown_error")))

\* handle_exception with "except Exception" as its first clause
handle_exception_generic_first(e) == unknown_error(e)

\* lines 64, 71: the except clauses, in their order
handle_exception(e) ==
    IF e.cls \in ClientErrorClasses THEN client_error(e) ELSE unknown_error(e)

\* lines 45-77, from the end of the await on: the value _make_request returns
make_request_result(o) ==
    LET body == read_body(o)
        tried == IF o.kind = "exception" THEN Raised(o.exc)
                 ELSE IF body.state = "raised" THEN body
                 ELSE set_http_status(body.value, o.status)
    IN  IF tried.state = "raised"
        THEN handle_exception(tried.exc)
        ELSE tried.value

---------------------------------------------------------------------------
(* json.dumps / json.loads *)

\* A JSON text is a sequence of tokens; the white space of indent=2 is left
\* out.  tok: "{" "}" "[]" "key" "true" "false" "null" "number" "string"
Tok(tok, s, n) == [tok |-> tok, s |-> s, n |-> n]
Punct(tok) == Tok(tok, "", 0)

\* The strings of the model that hold a character outside ASCII, each with
\* the form json.dumps gives it under ensure_ascii=True
NonAsciiText == "Param<e-grave>tres"
NonAsciiEscaped == "Param\\u00e8tres"

EscapeString(s, ensure_ascii) ==
    IF ensure_ascii /\ s = NonAsciiText THEN NonAsciiEscaped ELSE s
UnescapeString(s) ==
    IF s = NonAsciiEscaped THEN NonAsciiText ELSE s

\* The members of a set in one fixed order
RECURSIVE SetToSeq(_)
SetToSeq(S) ==
    IF S = {} THEN << >>
    ELSE LET x == CHOOSE y \in S : TRUE IN <<x>> \o SetToSeq(S \ {x})

RECURSIVE JsonDumps(_, _), DumpMembers(_, _, _)
JsonDumps(v, ensure_ascii) ==
    CASE v.t = "None" -> <<Punct("null")>>
      [] v.t = "bool" -> <<Punct(IF v.b THEN "true" ELSE "false")>>
      [] v.t = "int" -> <<Tok("number", "", v.n)>>
      [] v.t = "str" -> <<Tok("string", EscapeString(v.s, ensure_ascii), 0)>>
      [] v.t = "list" -> <<Punct("[]")>>
      [] v.t = "dict" ->
            <<Punct("{")>> \o DumpMembers(v.d, SetToSeq(DOMAIN v.d), ensure_ascii)
            \o <<Punct("}")>>
DumpMembers(d, keys, ensure_ascii) ==
    IF keys = << >> THEN << >>
    ELSE <<Tok("key", EscapeString(Head(keys), ensure_ascii), 0)>>
         \o JsonDumps(d[Head(keys)], ensure_ascii)
         \o DumpMembers(d, Tail(keys), ensure_ascii)

\* json.loads: the value read at position i, and the position after it
RECURSIVE ParseValue(_, _), ParseMembers(_, _, _)
ParseValue(ts, i) ==
    LET tk == ts[i] IN
    CASE tk.tok = "{" -> ParseMembers(ts, i + 1, EmptyDict)
      [] tk.tok = "null" -> [value |-> PyNone, next |-> i + 1]
      [] tk.tok = "true" -> [value |-> PyBool(TRUE), next |-> i + 1]
      [] tk.tok = "false" -> [value |-> PyBool(FALSE), next |-> i + 1]
      [] tk.tok = "number" -> [value |-> PyInt(tk.n), next |-> i + 1]
      [] tk.tok = "string" ->
            [value |-> PyStr(UnescapeString(tk.s)), next |-> i + 1]
      [] tk.tok = "[]" -> [value |-> PyList, next |-> i + 1]
ParseMembers(ts, i, acc) ==
    IF ts[i].tok = "}" THEN [value |-> PyDict(acc), next |-> i + 1]
    ELSE LET r == ParseValue(ts, i + 1)
         IN  ParseMembers(ts, r.next, SetItem(acc, UnescapeString(ts[i].s), r.value))

JsonLoads(ts) == ParseValue(ts, 1).value

---------------------------------------------------------------------------
(* UIAutomatorMCPServer *)

\* The names handle_call_tool has a branch for
ToolNames ==
    {"get_ui_dump", "click_element", "input_text", "scroll_screen",
     "wait_for_element", "press_back", "press_home", "press_recent",
     "get_device_info"}

\* What the synchronous part of a handler comes to: an exception, or one
\* client operation to await, whose result is then serialised
Raise(e) == [raised |-> TRUE, exc |-> e, req |-> NoRequest, ensure_ascii |-> TRUE]
Invoke(req, ensure_ascii) ==
    [raised |-> FALSE, exc |-> NoExc, req |-> req, ensure_ascii |-> ensure_ascii]

NoneSubscript == Exc("TypeError", "'NoneType' object is not subscriptable")
NoneAttribute(a) ==
    Exc("AttributeError", "'NoneType' object has no attribute '" \o a \o "'")

\* arguments.get(k, default) on a dict
Get(d, k, default) == IF k \in DOMAIN d THEN d[k] ELSE default

\* build_selector without its "if v is not None"
build_selector_keep_none(arguments) == PyDict(arguments.d)

\* server.py 238: {k: v for k, v in arguments.items() if v is not None}
build_selector(arguments) ==
    PyDict([k \in {x \in DOMAIN arguments.d : arguments.d[x] # PyNone}
               |-> arguments.d[k]])

\* unknown_tool raising the KeyError a table lookup of the name would
unknown_tool_lookup(name) == KeyError(name)

\* server.py 306: ValueError(f"Unknown tool: {name}")
unknown_tool(name) == Exc("ValueError", "Unknown tool: " \o name)

\* server.py 229-306: the branch of handle_call_tool taken for name
tool_branch(name, arguments) ==
    CASE name = "get_ui_dump" -> Invoke(get_ui_dump, FALSE)
      [] name = "click_element" ->
            IF arguments = PyNone THEN Raise(NoneAttribute("items"))
            ELSE Invoke(click_element(build_selector(arguments)), TRUE)
      [] name = "input_text" ->
            IF arguments = PyNone THEN Raise(NoneSubscript)
            ELSE IF "text" \notin DOMAIN arguments.d THEN Raise(KeyError("text"))
            ELSE IF "selector" \notin DOMAIN arguments.d
                 THEN Raise(KeyError("selector"))
            ELSE Invoke(input_text(arguments.d["selector"], arguments.d["text"],
                                   Get(arguments.d, "clear_first", PyBool(TRUE))),
                        TRUE)
      [] name = "scroll_screen" ->
            IF arguments = PyNone THEN Raise(NoneSubscript)
            ELSE IF "direction" \notin DOMAIN arguments.d
                 THEN Raise(KeyError("direction"))
            ELSE Invoke(scroll(arguments.d["direction"],
                               Get(arguments.d, "steps", PyInt(1)), PyNone),
                        TRUE)
      [] name = "wait_for_element" ->
            IF arguments = PyNone THEN Raise(NoneSubscript)
            ELSE IF "selector" \notin DOMAIN arguments.d
                 THEN Raise(KeyError("selector"))
            ELSE Invoke(wait_for_element(arguments.d["selector"],
                                         Get(arguments.d, "timeout", PyInt(5000)),
                                         Get(arguments.d, "condition", PyStr("visible"))),
                        TRUE)
      [] name = "press_back" -> Invoke(press_back, TRUE)
      [] name = "press_home" -> Invoke(press_home, TRUE)
      [] name = "press_recent" -> Invoke(press_recent, TRUE)
      [] name = "get_device_info" -> Invoke(get_device_info, TRUE)
      [] OTHER -> Raise(unknown_tool(name))

\* [types.TextContent(type="text", text=json.dumps(result, indent=2, ...))]
TextContent(v, ensure_ascii) ==
    <<[type |-> "text", text |-> JsonDumps(v, ensure_ascii)]>>

\* tool_except without the except clause: the exception leaves the handler
tool_except_reraise(e) == Raised(e)

\* server.py 308-317: what handle_call_tool returns for an exception
tool_except(e) ==
    Returned(TextContent(
        PyDict(("success" :> PyBool(FALSE)) @@ ("error" :> PyStr(e.msg))
               @@ ("error_type" :> PyStr(e.cls))),
        TRUE))

\* tool_return nesting the client's result under a "result" key
tool_return_wrapped(result, ensure_ascii) ==
    Returned(TextContent(PyDict("result" :> result), ensure_ascii))

\* server.py 231-303: what handle_call_tool returns for a client result
tool_return(result, ensure_ascii) == Returned(TextContent(result, ensure_ascii))

ResourceUris == {"android://ui/current", "android://device/info"}

\* server.py 351: ValueError(f"Unknown resource: {uri}")
unknown_resource(uri) == Exc("ValueError", "Unknown resource: " \o uri)

\* server.py 342-351: the branch of handle_read_resource taken for uri
resource_branch(uri) ==
    CASE uri = "android://ui/current" -> Invoke(get_ui_dump, FALSE)
      [] uri = "android://device/info" -> Invoke(get_device_info, TRUE)
      [] OTHER -> Raise(unknown_resource(uri))

\* handle_read_resource has no except clause: an exception leaves it
resource_except(e) == Raised(e)

\* resource_return always escaping non-ASCII characters
resource_return_ascii(result, ensure_ascii) == Returned(JsonDumps(result, TRUE))

\* server.py 344, 348: the string handle_read_resource returns
resource_return(result, ensure_ascii) == Returned(JsonDumps(result, ensure_ascii))

---------------------------------------------------------------------------
(* handle_list_tools: the catalog and its input schemas *)

\* A property of a JSON schema: its type, its enum (empty: none), its
\* <<minimum, maximum>> (empty: none), and for an object the types of its
\* own properties
Property(type, enum, range, properties) ==
    [type |-> type, enum |-> enum, range |-> range, properties |-> properties]
StringProperty == Property("string", {}, << >>, << >>)
ObjectProperty(properties) == Property("object", {}, << >>, properties)

\* An inputSchema: an object with properties, required keys, and the key
\* sets of an anyOf of "required" clauses (empty: no anyOf)
Schema(properties, required, anyOf) ==
    [properties |-> properties, required |-> required, anyOf |-> anyOf]
NoArguments == Schema(<< >>, {}, {})

\* server.py 116-123, 172-179: the selector of input_text / wait_for_element
NestedSelector ==
    ObjectProperty([k \in {"resource_id", "text", "text_contains", "class_name",
                           "content_desc"} |-> StringProperty])

\* server.py 55-97
click_element_schema ==
    Schema([k \in {"resource_id", "text", "text_contains", "class_name",
                   "content_desc", "bounds"} |->
               IF k = "bounds"
               THEN ObjectProperty([c \in {"left", "top", "right", "bottom"} |->
                                       Property("integer", {}, << >>, << >>)])
               ELSE StringProperty],
           {},
           {{"resource_id"}, {"text"}, {"text_contains"}, {"class_name"},
            {"content_desc"}, {"bounds"}})

\* server.py 102-127
input_text_schema ==
    Schema(("text" :> StringProperty)
           @@ ("clear_first" :> Property("boolean", {}, << >>, << >>))
           @@ ("selector" :> NestedSelector),
           {"text", "selector"}, {})

\* server.py 132-149
scroll_screen_schema ==
    Schema(("direction" :> Property("string", {"up", "down", "left", "right"},
                                    << >>, << >>))
           @@ ("steps" :> Property("integer", {}, <<1, 10>>, << >>)),
           {"direction"}, {})

\* server.py 154-183
wait_for_element_schema ==
    Schema(("timeout" :> Property("integer", {}, <<1000, 30000>>, << >>))
           @@ ("condition" :> Property("string", {"visible", "gone", "clickable"},
                                       << >>, << >>))
           @@ ("selector" :> NestedSelector),
           {"selector"}, {})

Tool(name, inputSchema) == [name |-> name, inputSchema |-> inputSchema]

\* handle_list_tools with press_home declared a second time as press_recent
handle_list_tools_repeated ==
    <<Tool("get_ui_dump", NoArguments),
      Tool("click_element", click_element_schema),
      Tool("input_text", input_text_schema),
      Tool("scroll_screen", scroll_screen_schema),
      Tool("wait_for_element", wait_for_element_schema),
      Tool("press_back", NoArguments),
      Tool("press_home", NoArguments),
      Tool("press_home", NoArguments),
      Tool("get_device_info", NoArguments)>>

\* server.py 42-221: the list handle_list_tools returns
handle_list_tools ==
    <<Tool("get_ui_dump", NoArguments),
      Tool("click_element", click_element_schema),
      Tool("input_text", input_text_schema),
      Tool("scroll_screen", scroll_screen_schema),
      Tool("wait_for_element", wait_for_element_schema),
      Tool("press_back", NoArguments),
      Tool("press_home", NoArguments),
      Tool("press_recent", NoArguments),
      Tool("get_device_info", NoArguments)>>

\* Whether a value is of a JSON schema type
HasType(v, type) ==
    CASE type = "string" -> v.t = "str"
      [] type = "integer" -> v.t = "int"
      [] type = "boolean" -> v.t = "bool"
      [] type = "object" -> v.t = "dict"

\* Whether a value satisfies a property; the properties of an object are
\* checked one level down, which is as deep as the schemas go
ValidLeaf(v, prop) ==
    /\ HasType(v, prop.type)
    /\ prop.enum # {} => v.s \in prop.enum
    /\ prop.range # << >> => prop.range[1] <= v.n /\ v.n <= prop.range[2]
Valid(v, prop) ==
    /\ ValidLeaf(v, prop)
    /\ prop.type = "object" =>
          \A k \in DOMAIN v.d \cap DOMAIN prop.properties :
              ValidLeaf(v.d[k], prop.properties[k])

\* Whether an argument bag satisfies an inputSchema
schema_accepts(schema, arguments) ==
    /\ IsDict(arguments)
    /\ schema.required \subseteq DOMAIN arguments.d
    /\ schema.anyOf # {} => \E r \in schema.anyOf : r \subseteq DOMAIN arguments.d
    /\ \A k \in DOMAIN arguments.d \cap DOMAIN schema.properties :
          Valid(arguments.d[k], schema.properties[k])

\* The inputSchema the catalog declares for a name; none for other names
DeclaredSchema(name) ==
    LET i == CHOOSE j \in 1..Len(handle_list_tools) : handle_list_tools[j].name = name
    IN  handle_list_tools[i].inputSchema

---------------------------------------------------------------------------
(* The calls and the backend behaviours the model tries *)

\* The six criteria of a selector (server.py 57-87)
SelectorKeys ==
    {"resource_id", "text", "text_contains", "class_name", "content_desc", "bounds"}

\* An argument a caller may give for key k: a value, or None
ArgValues(k) ==
    CASE k = "resource_id" -> {PyNone, PyStr("com.example:id/button")}
      [] k = "text" -> {PyNone, PyStr("Submit")}
      [] k = "text_contains" -> {PyNone, PyStr("ubm")}
      [] k = "class_name" -> {PyNone, PyStr("android.widget.Button")}
      [] k = "content_desc" -> {PyNone, PyStr(NonAsciiText)}
      [] k = "bounds" ->
            {PyNone,
             PyDict([c \in {"left", "top", "right", "bottom"} |->
                        PyInt(IF c \in {"left", "top"} THEN 0 ELSE 100)])}
      [] k = "index" -> {PyNone, PyInt(2)}
      [] k = "clear_first" -> {PyBool(TRUE), PyBool(FALSE)}
      [] k = "direction" -> {PyStr("down"), PyStr("sideways")}
      [] k = "steps" -> {PyInt(0), PyInt(1), PyInt(3), PyInt(10), PyInt(11)}
      [] k = "timeout" -> {PyInt(1000), PyInt(30000), PyInt(60000)}
      [] k = "condition" -> {PyStr("gone")}
      [] k = "selector" ->
            {PyNone, PyDict(EmptyDict), PyDict("text" :> PyStr("Submit"))}
      [] OTHER -> {PyStr("hello")}

\* The dicts whose keys are a subset of K with at most n members
Dicts(K, n) ==
    UNION {{d \in [S -> UNION {ArgValues(k) : k \in S}] :
                \A k \in S : d[k] \in ArgValues(k)} :
            S \in {T \in SUBSET K : Cardinality(T) <= n}}

\* How many keys an argument bag of click_element holds at most
MaxCriteria == 2

\* The argument bags tried for a tool name; None is a caller passing none
ToolArguments(name) ==
    CASE name = "click_element" ->
            {PyDict(d) : d \in Dicts(SelectorKeys \cup {"index"}, MaxCriteria)}
            \cup {PyNone}
      [] name = "input_text" ->
            {PyDict(d) : d \in Dicts({"text", "selector", "clear_first"}, 3)}
            \cup {PyNone}
      [] name = "scroll_screen" ->
            {PyDict(d) : d \in Dicts({"direction", "steps"}, 2)} \cup {PyNone}
      [] name = "wait_for_element" ->
            {PyDict(d) : d \in Dicts({"selector", "timeout", "condition"}, 3)}
            \cup {PyNone}
      [] OTHER -> {PyDict(d) : d \in Dicts({"text"}, 1)} \cup {PyNone}

\* Names a caller may ask for that handle_call_tool has no branch for
UnknownNames == {"unknown_tool", "health_check"}

Call(iface, name, arguments) ==
    [iface |-> iface, name |-> name, arguments |-> arguments]
NoCall == Call("none", "", PyNone)

ToolCalls ==
    {Call("tool", n, a) : n \in {"click_element"}, a \in ToolArguments("click_element")}
    \cup {Call("tool", n, a) : n \in {"input_text"}, a \in ToolArguments("input_text")}
    \cup {Call("tool", n, a) : n \in {"scroll_screen"}, a \in ToolArguments("scroll_screen")}
    \cup {Call("tool", n, a) : n \in {"wait_for_element"},
                               a \in ToolArguments("wait_for_element")}
    \cup {Call("tool", n, a) :
            n \in (ToolNames \ {"click_element", "input_text", "scroll_screen",
                                "wait_for_element"}) \cup UnknownNames,
            a \in ToolArguments("")}

ResourceCalls ==
    {Call("resource", u, PyNone) : u \in ResourceUris \cup {"android://ui/other"}}

\* Direct calls of the client's operations, with the arguments given by name
ClientCalls ==
    {Call("client", n, PyDict(EmptyDict)) :
        n \in {"health_check", "get_ui_dump", "get_ui_dump_xml", "press_back",
               "press_home", "press_recent", "get_device_info"}}
    \cup {Call("client", "click_element", PyDict("selector" :> sel)) :
            sel \in ArgValues("selector") \ {PyNone}}
    \cup {Call("client", "input_text",
               PyDict(d @@ ("selector" :> PyDict("text" :> PyStr("Submit")))
                        @@ ("text" :> PyStr("hello")))) :
            d \in Dicts({"clear_first"}, 1)}
    \cup {Call("client", "scroll", PyDict(d @@ ("direction" :> PyStr("down")))) :
            d \in Dicts({"steps", "selector"}, 2)}
    \cup {Call("client", "wait_for_element",
               PyDict(d @@ ("selector" :> PyDict("text" :> PyStr("Submit"))))) :
            d \in Dicts({"timeout", "condition"}, 2)}

\* android_client.py 79-138: the operation called, with its defaults
client_operation(op, p) ==
    CASE op = "health_check" -> health_check
      [] op = "get_ui_dump" -> get_ui_dump
      [] op = "get_ui_dump_xml" -> get_ui_dump_xml
      [] op = "click_element" -> click_element(p["selector"])
      [] op = "input_text" ->
            input_text(p["selector"], p["text"], Get(p, "clear_first", PyBool(TRUE)))
      [] op = "scroll" ->
            scroll(p["direction"], Get(p, "steps", PyInt(1)),
                   Get(p, "selector", PyNone))
      [] op = "wait_for_element" ->
            wait_for_element(p["selector"], Get(p, "timeout", PyInt(5000)),
                             Get(p, "condition", PyStr("visible")))
      [] op = "press_back" -> press_back
      [] op = "press_home" -> press_home
      [] op = "press_recent" -> press_recent
      [] op = "get_device_info" -> get_device_info

\* Response bodies: the raw text and what json.loads makes of it
Bodies ==
    {Body("{\"success\": true}", PyDict("success" :> PyBool(TRUE))),
     Body("{\"success\": false, \"error\": \"Internal server error\"}",
          PyDict(("success" :> PyBool(FALSE))
                 @@ ("error" :> PyStr("Internal server error")))),
     Body("{\"status\": \"ok\"}", PyDict("status" :> PyStr("ok"))),
     Body("{\"error\": \"teapot\", \"http_status\": 418}",
          PyDict(("error" :> PyStr("teapot")) @@ ("http_status" :> PyInt(418)))),
     Body("{\"success\": true, \"text\": \"Param<e-grave>tres\"}",
          PyDict(("success" :> PyBool(TRUE)) @@ ("text" :> PyStr(NonAsciiText)))),
     Body("{\"screen_size\": {\"width\": 1080}}",
          PyDict("screen_size" :> PyDict("width" :> PyInt(1080)))),
     Body("[]", PyList),
     Body("", PyNone),
     Body("<hierarchy/>", JsonInvalid)}

Statuses == {200, 399, 400, 500}
ContentTypes == {"application/json", "text/xml"}

\* What session.request may end with
TransportErrors ==
    {Exc("ClientConnectorError", "Cannot connect to host localhost:8080"),
     Exc("ServerDisconnectedError", "Server disconnected"),
     TimeoutError}

Outcomes ==
    {Response(st, ct, b) : st \in Statuses, ct \in ContentTypes, b \in Bodies}
    \cup {Failure(e) : e \in TransportErrors}

\* What constructing aiohttp.ClientSession may raise
SessionErrors == {Exc("RuntimeError", "no running event loop")}

---------------------------------------------------------------------------
(* The state machine *)

\* The most tasks in flight at once, ClientSession objects constructed, and
\* close() calls followed
MaxTasks == 3
MaxSessions == 3
MaxCloseCalls == 2

Tasks == 1..MaxTasks
SessionIds == 1..MaxSessions

NoArgs == [stdio |-> FALSE, debug |-> FALSE, android_host |-> "", android_port |-> 0]

\* A server with its client just constructed, no call in it
ServerInit ==
    /\ pc = "idle"
    /\ call = NoCall
    /\ request = NoRequest
    /\ outcome = NoOutcome
    /\ clientReturn = NotYet
    /\ reply = NotYet
    /\ session = "none"
    /\ sent = 0
    /\ created = 0
    /\ held = 0
    /\ sessionCloses = [i \in SessionIds |-> 0]
    /\ tasks = [t \in Tasks |-> 0]
    /\ returned = {}
    /\ closeCalls = 0
    /\ taskOutcome = [t \in Tasks |-> NoOutcome]
    /\ results = [t \in Tasks |-> NotYet]

Init ==
    /\ ServerInit
    /\ argv = << >>
    /\ mainArgs = NoArgs
    /\ phase = "none"
    /\ stopped = ""
    /\ exitCode = -1

\* Branch probing the backend's /health before it looks at a tool call
Branch_probe_first(c) ==
    CASE c.iface = "tool" ->
            IF tool_branch(c.name, c.arguments).raised
            THEN Invoke(health_check, TRUE)
            ELSE tool_branch(c.name, c.arguments)
      [] c.iface = "resource" -> resource_branch(c.name)
      [] c.iface = "client" -> Invoke(client_operation(c.name, c.arguments.d), TRUE)

\* The synchronous part of the handler (or operation) entered by call c
Branch(c) ==
    CASE c.iface = "tool" -> tool_branch(c.name, c.arguments)
      [] c.iface = "resource" -> resource_branch(c.name)
      [] c.iface = "client" -> Invoke(client_operation(c.name, c.arguments.d), TRUE)

\* What the handler does with an exception raised inside it; a direct call
\* of the client has no handler around it
HandlerExcept(iface, e) ==
    CASE iface = "tool" -> tool_except(e)
      [] iface = "resource" -> resource_except(e)
      [] OTHER -> NotYet

HandlerReturn(iface, result, ensure_ascii) ==
    CASE iface = "tool" -> tool_return(result, ensure_ascii)
      [] iface = "resource" -> resource_return(result, ensure_ascii)
      [] OTHER -> NotYet

\* _get_session constructing a session only while none is held
get_session_creates_if_none(s) == s = "none"

\* _get_session constructing a session on every call
get_session_creates_always(s) == s \in {"none", "open", "closed"}

\* android_client.py 30: ClientTimeout(total=30), in seconds
ClientTimeoutTotal == 30

\* The total timeout taken as if it were given in milliseconds
total_timeout_ms_unconverted == ClientTimeoutTotal

\* android_client.py 30: the total timeout of a request, in milliseconds
total_timeout_ms == ClientTimeoutTotal * 1000

\* android_client.py 28: whether _get_session constructs a session
get_session_creates(s) == s = "none" \/ s = "closed"

\* A call enters: its handler runs up to the await in _make_request, or to
\* its end when an exception stops it before.
\*   - the branch raises (missing argument, unknown name);
\*   - _get_session (line 43, before the try) constructs the session or
\*     returns the open one, and the request is handed to it;
\*   - constructing the session raises: the exception leaves _make_request
\*     and the operation, and reaches the handler.
Enter(c) ==
    /\ pc = "idle"
    /\ call' = c
    /\ outcome' = NoOutcome
    /\ LET b == Branch(c) IN
       \/ /\ b.raised
          /\ pc' = "done"
          /\ request' = NoRequest
          /\ clientReturn' = NotYet
          /\ reply' = HandlerExcept(c.iface, b.exc)
          /\ sent' = 0
          /\ UNCHANGED session
       \/ /\ ~b.raised
          /\ session' = IF get_session_creates(session) THEN "open" ELSE session
          /\ pc' = "awaiting"
          /\ request' = b.req
          /\ sent' = 1
          /\ clientReturn' = NotYet
          /\ reply' = NotYet
       \/ /\ ~b.raised
          /\ get_session_creates(session)
          /\ \E e \in SessionErrors :
                /\ pc' = "done"
                /\ request' = NoRequest
                /\ clientReturn' = Raised(e)
                /\ reply' = HandlerExcept(c.iface, e)
          /\ sent' = 0
          /\ UNCHANGED session
    /\ UNCHANGED clientVars
    /\ UNCHANGED processVars

CallTool == \E c \in ToolCalls : Enter(c)
ReadResource == \E c \in ResourceCalls : Enter(c)
CallClient == \E c \in ClientCalls : Enter(c)

\* The most times one request is followed through session.request
MaxSends == 2

\* _make_request sending the request again when the transport failed
resend_after_failure(o) == o.kind = "exception"

\* android_client.py 64-77: whether _make_request goes back to
\* session.request after outcome o; both except clauses return, and neither
\* the operations nor the handlers call _make_request in a loop
resend_after(o) == FALSE

\* The await ends with outcome o: _make_request returns, the operation
\* returns what it returned, and the handler serialises it
Respond ==
    /\ pc = "awaiting"
    /\ \E o \in Outcomes :
          LET result == make_request_result(o) IN
          /\ outcome' = o
          /\ IF resend_after(o)
             THEN /\ sent < MaxSends
                  /\ sent' = sent + 1
                  /\ pc' = "awaiting"
                  /\ UNCHANGED <<clientReturn, reply>>
             ELSE /\ clientReturn' = Returned(result)
                  /\ reply' = HandlerReturn(call.iface, result,
                                            Branch(call).ensure_ascii)
                  /\ pc' = "done"
                  /\ UNCHANGED sent
    /\ UNCHANGED <<call, request, session>>
    /\ UNCHANGED clientVars
    /\ UNCHANGED processVars

\* Finish for a server that a failed call has brought down: only a call
\* that raised nothing and whose request got a response is followed by another
Finish_unless_failed ==
    /\ pc = "done"
    /\ clientReturn.state = "returned"
    /\ outcome.kind = "response"
    /\ pc' = "idle"
    /\ call' = NoCall
    /\ request' = NoRequest
    /\ outcome' = NoOutcome
    /\ clientReturn' = NotYet
    /\ reply' = NotYet
    /\ sent' = 0
    /\ UNCHANGED session
    /\ UNCHANGED clientVars
    /\ UNCHANGED processVars

\* The caller has its result; the next call may enter
Finish ==
    /\ pc = "done"
    /\ pc' = "idle"
    /\ call' = NoCall
    /\ request' = NoRequest
    /\ outcome' = NoOutcome
    /\ clientReturn' = NotYet
    /\ reply' = NotYet
    /\ sent' = 0
    /\ UNCHANGED session
    /\ UNCHANGED clientVars
    /\ UNCHANGED processVars

\* close() invoking session.close() on whatever session is held
close_closes_any(s) == s # "none"

\* android_client.py 37: whether close() invokes session.close()
close_closes(s) == s = "open"

\* android_client.py 35-38: AndroidClient.close()
Close ==
    /\ pc = "idle"
    /\ session' = IF close_closes(session) THEN "closed" ELSE session
    /\ UNCHANGED <<pc, call, request, outcome, clientReturn, reply, sent>>
    /\ UNCHANGED clientVars
    /\ UNCHANGED processVars

\* server.py 39-221: handle_list_tools is called and returns the catalog; it
\* touches neither the client nor the backend
ListTools ==
    /\ pc = "idle"
    /\ pc' = "done"
    /\ call' = Call("list_tools", "", PyNone)
    /\ reply' = Returned(handle_list_tools)
    /\ UNCHANGED <<request, outcome, clientReturn, session, sent>>
    /\ UNCHANGED clientVars
    /\ UNCHANGED processVars

Next ==
    CallTool \/ ReadResource \/ CallClient \/ Respond \/ Finish \/ Close
    \/ ListTools

Spec == Init /\ [][Next]_vars

\* Every request handed to the session ends: the backend answers, the
\* transport fails, or the total timeout of ClientTimeout(total=30) expires;
\* and the event loop resumes a handler whose await has ended
FairSpec == Spec /\ WF_vars(Respond) /\ WF_vars(Finish)

---------------------------------------------------------------------------
(* One AndroidClient used by several operations at once *)

\* The state of self.session as _get_session and close() see it
HeldState ==
    IF held = 0 THEN "none"
    ELSE IF sessionCloses[held] > 0 THEN "closed" ELSE "open"

\* android_client.py 40-48: task t starts an operation; _make_request calls
\* _get_session, which has no await in it, and suspends in session.request
\* on the session it got
Operation(t) ==
    /\ tasks[t] = 0
    /\ IF get_session_creates(HeldState)
       THEN /\ created < MaxSessions
            /\ created' = created + 1
            /\ held' = created + 1
       ELSE UNCHANGED <<created, held>>
    /\ tasks' = [tasks EXCEPT ![t] = held']
    /\ returned' = returned \cup {held'}
    /\ taskOutcome' = [taskOutcome EXCEPT ![t] = NoOutcome]
    /\ results' = [results EXCEPT ![t] = NotYet]
    /\ UNCHANGED <<sessionCloses, closeCalls>>
    /\ UNCHANGED callVars
    /\ UNCHANGED processVars

\* What the requests of calls in flight together may end with
ConcurrentOutcomes ==
    {Response(200, "application/json",
              Body("{\"success\": true}", PyDict("success" :> PyBool(TRUE)))),
     Response(500, "application/json",
              Body("{\"success\": false, \"error\": \"Internal server error\"}",
                   PyDict(("success" :> PyBool(FALSE))
                          @@ ("error" :> PyStr("Internal server error"))))),
     Failure(Exc("ServerDisconnectedError", "Server disconnected"))}

\* The response of one task's request reaching every task
receives_any(t, u) == TRUE

\* android_client.py 48-62: whether task u gets what the request of task t
\* ended with; response and result are locals of the coroutine of t
receives(t, u) == u = t

\* android_client.py 48-77, server.py 231-303: the request of task t ends,
\* with a response or a failure; _make_request returns its result and the
\* handler serialises it
Complete(t) ==
    /\ tasks[t] # 0
    /\ tasks' = [tasks EXCEPT ![t] = 0]
    /\ \E o \in ConcurrentOutcomes :
          /\ taskOutcome' = [u \in Tasks |->
                                IF receives(t, u) THEN o ELSE taskOutcome[u]]
          /\ results' = [u \in Tasks |->
                            IF receives(t, u)
                            THEN tool_return(make_request_result(o), TRUE)
                            ELSE results[u]]
    /\ UNCHANGED <<created, held, sessionCloses, returned, closeCalls>>
    /\ UNCHANGED callVars
    /\ UNCHANGED processVars

\* android_client.py 35-38: close() is called, by any task and in any state;
\* nothing suspends between its test of the session and session.close()
ClientClose ==
    /\ closeCalls < MaxCloseCalls
    /\ closeCalls' = closeCalls + 1
    /\ sessionCloses' = IF close_closes(HeldState)
                        THEN [sessionCloses EXCEPT ![held] = @ + 1]
                        ELSE sessionCloses
    /\ UNCHANGED <<created, held, tasks, returned, taskOutcome, results>>
    /\ UNCHANGED callVars
    /\ UNCHANGED processVars

ClientNext ==
    \/ \E t \in Tasks : Operation(t)
    \/ \E t \in Tasks : Complete(t)
    \/ ClientClose

ClientSpec == Init /\ [][ClientNext]_vars

---------------------------------------------------------------------------
(* main.py: the server process from its command line to its exit *)

\* The options a command line may hold after the program name; a port is
\* given as text and converted by argparse (type=int)
Hosts == {"10.0.0.5"}
Ports == {"9090", "5555"}
int(text) == CASE text = "9090" -> 9090 [] text = "5555" -> 5555

Option(flag, values) == {<< >>} \cup {<<flag, v>> : v \in values}
Flag(flag) == {<< >>, <<flag>>}

\* sys.argv for every choice of the four options main.py declares
CommandLines ==
    {<<"main.py">> \o h \o p \o st \o d :
        h \in Option("--android-host", Hosts),
        p \in Option("--android-port", Ports),
        st \in Flag("--stdio"), d \in Flag("--debug")}

Has(tokens, flag) == \E i \in 1..Len(tokens) : tokens[i] = flag
ValueOf(tokens, flag, default) ==
    IF Has(tokens, flag)
    THEN tokens[(CHOOSE i \in 1..Len(tokens) : tokens[i] = flag) + 1]
    ELSE default

\* main.py 35-57: parser.parse_args(tokens), tokens without the program name
parse_args(tokens) ==
    [stdio |-> Has(tokens, "--stdio"),
     debug |-> Has(tokens, "--debug"),
     android_host |-> ValueOf(tokens, "--android-host", "localhost"),
     android_port |-> IF Has(tokens, "--android-port")
                      THEN int(ValueOf(tokens, "--android-port", ""))
                      ELSE 8080]

\* main.py 60-64: the arguments main works with
parsed(sys_argv) ==
    IF Len(sys_argv) = 1
    THEN parse_args(<<"--stdio">>)
    ELSE parse_args(Tail(sys_argv))

\* android_client.py 140-149: __del__ calls nothing itself; while the event
\* loop still runs it schedules close() as a task that nothing awaits, and
\* otherwise it does nothing.  Whether that task runs before the loop is
\* closed is up to when the object is collected: the session is closed by
\* then, or it is not
del_outcomes(s) == IF s = "open" THEN {"open", "closed"} ELSE {s}

MainInit ==
    /\ ServerInit
    /\ argv \in CommandLines
    /\ mainArgs = NoArgs
    /\ phase = "start"
    /\ stopped = ""
    /\ exitCode = -1

\* main.py 59-88: the arguments are parsed and the server constructed; with
\* args.stdio the stdio transport starts, without it main logs "Only stdio
\* transport is currently supported" and exits with status 1
Start ==
    /\ phase = "start"
    /\ mainArgs' = parsed(argv)
    /\ IF mainArgs'.stdio
       THEN /\ phase' = "serving"
            /\ UNCHANGED <<stopped, exitCode>>
       ELSE /\ phase' = "exited"
            /\ stopped' = "no_transport"
            /\ exitCode' = 1
    /\ UNCHANGED <<argv, callVars, clientVars>>

\* server.py 223-351: the running server handles a call that reaches the
\* backend; the client's session is constructed if none is open
Serve ==
    /\ phase = "serving"
    /\ session' = IF get_session_creates(session) THEN "open" ELSE session
    /\ UNCHANGED <<pc, call, request, outcome, clientReturn, reply, sent>>
    /\ UNCHANGED <<clientVars, processVars>>

\* main.py 84-94: the run loop ends: run_stdio returns, KeyboardInterrupt is
\* caught and logged, or another exception is logged and followed by
\* sys.exit(1).  Neither main nor run_stdio calls close(); the client is
\* left to __del__
RunEnds ==
    /\ phase = "serving"
    /\ \E how \in {"normal", "interrupt", "error"} :
          /\ stopped' = how
          /\ exitCode' = IF how = "error" THEN 1 ELSE 0
    /\ session' \in del_outcomes(session)
    /\ phase' = "exited"
    /\ UNCHANGED <<pc, call, request, outcome, clientReturn, reply, sent>>
    /\ UNCHANGED <<argv, mainArgs, clientVars>>

MainNext == Start \/ Serve \/ RunEnds

MainSpec == MainInit /\ [][MainNext]_vars

---------------------------------------------------------------------------
(* Properties *)

\* The call has ended and the client operation it made got its answer
\* from the backend or the transport
Answered == pc = "done" /\ outcome.kind # "none"

\* The fields of a dict value
Keys(v) == DOMAIN v.d

\* The transport's connection-level failures: the backend is unreachable
ConnectionFailures == {"ClientConnectorError", "ServerDisconnectedError"}

\* C1: every AndroidClient operation returns a JSON-shaped value and never
\* raises, whatever the backend does and whichever step of _make_request
\* fails, obtaining the session included.
C1_ClientNeverRaises ==
    pc = "done" /\ call.iface = "client" =>
        /\ clientReturn.state = "returned"
        /\ clientReturn.value.t \in {"dict", "list", "None"}

\* C2: when the backend is unreachable, the operation returns an object with
\* success false, error_type "client_error" and an error message.
C2_UnreachableIsClientError ==
    Answered /\ outcome.kind = "exception"
             /\ outcome.exc.cls \in ConnectionFailures =>
        /\ clientReturn.state = "returned"
        /\ IsDict(clientReturn.value)
        /\ Keys(clientReturn.value) = {"success", "error", "error_type"}
        /\ clientReturn.value.d["success"] = PyBool(FALSE)
        /\ clientReturn.value.d["error_type"] = PyStr("client_error")
        /\ clientReturn.value.d["error"]
              = PyStr("HTTP client error: " \o outcome.exc.msg)

C2_Witness ==
    /\ Answered
    /\ call.iface = "client"
    /\ outcome.kind = "exception"
    /\ outcome.exc.cls = "ClientConnectorError"

\* C3: a request that exceeds the 30 second total timeout returns an envelope
\* whose error_type is "client_error".
C3_TimeoutIsClientError ==
    Answered /\ outcome.kind = "exception" /\ outcome.exc = TimeoutError =>
        /\ clientReturn.state = "returned"
        /\ IsDict(clientReturn.value)
        /\ "error_type" \in Keys(clientReturn.value)
        /\ clientReturn.value.d["error_type"] = PyStr("client_error")

\* The response carried a JSON object, read as JSON
JsonObjectResponse ==
    /\ Answered
    /\ outcome.kind = "response"
    /\ outcome.content_type = "application/json"
    /\ outcome.body.json.t = "dict"

\* C4: for a status >= 400 and a JSON object body without http_status, the
\* operation returns the body with http_status set to the status and every
\* other field as it was.
C4_ErrorStatusAppended ==
    JsonObjectResponse /\ outcome.status >= 400
                       /\ "http_status" \notin Keys(outcome.body.json) =>
        /\ clientReturn.state = "returned"
        /\ IsDict(clientReturn.value)
        /\ Keys(clientReturn.value) = Keys(outcome.body.json) \cup {"http_status"}
        /\ clientReturn.value.d["http_status"] = PyInt(outcome.status)
        /\ \A k \in Keys(outcome.body.json) :
              clientReturn.value.d[k] = outcome.body.json.d[k]

C4_Witness ==
    /\ JsonObjectResponse
    /\ call = Call("client", "health_check", PyDict(EmptyDict))
    /\ outcome.status = 500
    /\ outcome.body.json
          = PyDict(("success" :> PyBool(FALSE))
                   @@ ("error" :> PyStr("Internal server error")))

HasBooleanSuccess(v) ==
    /\ IsDict(v)
    /\ "success" \in Keys(v)
    /\ v.d["success"].t = "bool"

\* C6, as the specification states it: every object an operation returns
\* holds a boolean success field.
C6_SuccessAlwaysPresent ==
    pc = "done" /\ clientReturn.state = "returned" =>
        HasBooleanSuccess(clientReturn.value)

\* The response was read without an exception inside _make_request's try:
\* a JSON document (on an error status, an object), or a body that is not
\* served as JSON
ReadCleanly ==
    /\ outcome.kind = "response"
    /\ \/ outcome.content_type # "application/json"
       \/ /\ outcome.body.json # JsonInvalid
          /\ (outcome.status >= 400 => outcome.body.json.t = "dict")

\* C6, amended: the envelopes the client builds itself, for a transport
\* failure or an unexpected failure, hold success = false; a body passed on
\* from the backend holds a success field exactly when the backend's JSON
\* object held one, with the backend's value, and the {"content": text}
\* wrapper of a body not served as JSON holds none.
C6_SuccessWhereStated ==
    Answered =>
        /\ clientReturn.state = "returned"
        /\ ~ReadCleanly =>
              /\ HasBooleanSuccess(clientReturn.value)
              /\ clientReturn.value.d["success"] = PyBool(FALSE)
        /\ ReadCleanly /\ outcome.content_type # "application/json" =>
              /\ IsDict(clientReturn.value)
              /\ "success" \notin Keys(clientReturn.value)
        /\ ReadCleanly /\ outcome.content_type = "application/json"
                       /\ IsDict(clientReturn.value) =>
              /\ IsDict(outcome.body.json)
              /\ "success" \in Keys(clientReturn.value)
                    <=> "success" \in Keys(outcome.body.json)
              /\ "success" \in Keys(clientReturn.value) =>
                    clientReturn.value.d["success"] = outcome.body.json.d["success"]

C6_Witness ==
    /\ Answered
    /\ ReadCleanly
    /\ outcome.status = 200
    /\ outcome.content_type = "application/json"
    /\ outcome.body.json = PyDict("status" :> PyStr("ok"))
    /\ clientReturn.value = PyDict("status" :> PyStr("ok"))


\* The tool call has ended
ToolDone == pc = "done" /\ call.iface = "tool"

\* handle_call_tool returned exactly one text content block
OneTextBlock ==
    /\ reply.state = "returned"
    /\ Len(reply.value) = 1
    /\ reply.value[1].type = "text"

\* The object the text of that block parses to
ReplyJson == JsonLoads(reply.value[1].text)

\* Handling the call raised: in the handler's own branch, or in the client
\* operation it awaited
HandlingRaised == Branch(call).raised \/ clientReturn.state = "raised"
HandlingException ==
    IF Branch(call).raised THEN Branch(call).exc ELSE clientReturn.exc

\* C7: whatever the tool name and the arguments, an exception raised while
\* the call is handled does not leave handle_call_tool: it returns one text
\* block whose JSON is {success: false, error: <message>, error_type: <class>}.
C7_ToolExceptionsBecomeEnvelopes ==
    ToolDone =>
        /\ OneTextBlock
        /\ HandlingRaised =>
              ReplyJson = PyDict(("success" :> PyBool(FALSE))
                                 @@ ("error" :> PyStr(HandlingException.msg))
                                 @@ ("error_type" :> PyStr(HandlingException.cls)))

C7_Witness ==
    /\ ToolDone
    /\ clientReturn.state = "raised"
    /\ OneTextBlock
    /\ ReplyJson.d["error_type"] = PyStr("RuntimeError")

\* C8, as the specification states it: a name outside the catalog gives a
\* failure envelope whose error_type is "unknown tool".
C8_UnknownToolErrorType ==
    ToolDone /\ call.name \notin ToolNames =>
        /\ OneTextBlock
        /\ ReplyJson.d["success"] = PyBool(FALSE)
        /\ ReplyJson.d["error_type"] = PyStr("unknown tool")

\* C8, amended: a name outside the catalog gives (and does not raise) a
\* failure envelope with success false, error_type "ValueError" and the
\* error message "Unknown tool: <name>".
C8_UnknownToolIsValueError ==
    ToolDone /\ call.name \notin ToolNames =>
        /\ OneTextBlock
        /\ Keys(ReplyJson) = {"success", "error", "error_type"}
        /\ ReplyJson.d["success"] = PyBool(FALSE)
        /\ ReplyJson.d["error_type"] = PyStr("ValueError")
        /\ ReplyJson.d["error"] = PyStr("Unknown tool: " \o call.name)

C8_Witness ==
    /\ ToolDone
    /\ call.name = "unknown_tool"
    /\ OneTextBlock

\* C9: reading a URI other than the two declared is answered with an
\* envelope holding success = false; no exception leaves
\* handle_read_resource.
C9_UnknownResourceEnvelope ==
    pc = "done" /\ call.iface = "resource" /\ call.name \notin ResourceUris =>
        /\ reply.state = "returned"
        /\ IsDict(JsonLoads(reply.value))
        /\ "success" \in Keys(JsonLoads(reply.value))
        /\ JsonLoads(reply.value).d["success"] = PyBool(FALSE)

\* The argument bag holds recognised selector keys only, one at least with
\* a value
RecognisedCriteria(arguments) ==
    /\ IsDict(arguments)
    /\ Keys(arguments) \subseteq SelectorKeys
    /\ \E k \in Keys(arguments) : arguments.d[k] # PyNone

\* The request of the call was handed to the session
RequestSent == pc \in {"awaiting", "done"} /\ request # NoRequest

\* C10: for a click_element bag of recognised keys with a non-null value,
\* the selector sent to the backend is exactly the bag's non-null entries.
C10_ClickSelectorIsNonNullEntries ==
    call.iface = "tool" /\ call.name = "click_element"
        /\ pc \in {"awaiting", "done"}
        /\ RecognisedCriteria(call.arguments) =>
        /\ clientReturn.state # "raised" => RequestSent
        /\ RequestSent =>
              /\ request.method = "POST"
              /\ request.url = "http://localhost:8080/ui/click"
              /\ IsDict(request.data)
              /\ Keys(request.data) = {"selector"}
              /\ LET sel == request.data.d["selector"]
                     args == call.arguments.d
                 IN  /\ IsDict(sel)
                     /\ Keys(sel) = {k \in DOMAIN args : args[k] # PyNone}
                     /\ \A k \in Keys(sel) : sel.d[k] = args[k]

C10_Witness ==
    /\ call.iface = "tool" /\ call.name = "click_element"
    /\ RequestSent
    /\ RecognisedCriteria(call.arguments)
    /\ \E k \in Keys(call.arguments) : call.arguments.d[k] = PyNone
    /\ "bounds" \in Keys(request.data.d["selector"])


\* The call is a tool call of the given name whose request was sent
ToolRequestSent(name) ==
    call.iface = "tool" /\ call.name = name /\ RequestSent

\* The selector carried by the request of an element-targeting tool
SentSelector == request.data.d["selector"]

\* C11: no call of click_element, input_text or wait_for_element, whatever
\* its arguments, puts a request with an empty selector on the wire.
C11_SelectorNeverEmpty ==
    \A name \in {"click_element", "input_text", "wait_for_element"} :
        ToolRequestSent(name) =>
            /\ IsDict(SentSelector)
            /\ Keys(SentSelector) # {}

\* A request with an empty selector sent for arguments that satisfy the
\* inputSchema the catalog declares for the tool
SchemaValidEmptySelector ==
    /\ call.iface = "tool"
    /\ call.name \in {"input_text", "wait_for_element"}
    /\ RequestSent
    /\ schema_accepts(DeclaredSchema(call.name), call.arguments)
    /\ SentSelector = PyDict(EmptyDict)

\* C12: the payload of input_text holds selector, text and clear_first;
\* clear_first is true when the caller gave none, else the caller's value.
C12_InputTextPayload ==
    ToolRequestSent("input_text") =>
        LET args == call.arguments.d IN
        /\ request.method = "POST"
        /\ request.url = "http://localhost:8080/ui/input"
        /\ IsDict(request.data)
        /\ Keys(request.data) = {"selector", "text", "clear_first"}
        /\ request.data.d["selector"] = args["selector"]
        /\ request.data.d["text"] = args["text"]
        /\ request.data.d["clear_first"]
              = IF "clear_first" \in DOMAIN args THEN args["clear_first"]
                ELSE PyBool(TRUE)

C12_Witness ==
    /\ ToolRequestSent("input_text")
    /\ "clear_first" \notin Keys(call.arguments)
    /\ request.data.d["clear_first"] = PyBool(TRUE)

\* The steps the caller gave lie in the schema's range
StepsInRange(args) == args["steps"].n >= 1 /\ args["steps"].n <= 10

\* C13: scroll_screen sends steps = 1 when the caller gave none and steps = k
\* for a given k in 1..10; the payload holds direction and steps and nothing
\* else.
C13_ScrollPayload ==
    ToolRequestSent("scroll_screen") =>
        LET args == call.arguments.d IN
        /\ request.method = "POST"
        /\ request.url = "http://localhost:8080/ui/scroll"
        /\ IsDict(request.data)
        /\ Keys(request.data) = {"direction", "steps"}
        /\ request.data.d["direction"] = args["direction"]
        /\ "steps" \notin DOMAIN args => request.data.d["steps"] = PyInt(1)
        /\ "steps" \in DOMAIN args /\ StepsInRange(args) =>
              request.data.d["steps"] = args["steps"]

C13_Witness ==
    /\ ToolRequestSent("scroll_screen")
    /\ "steps" \in Keys(call.arguments)
    /\ request.data.d["steps"] = PyInt(3)

\* C14: no /ui/scroll request is issued with steps below 1 or above 10.
C14_StepsOutOfRangeRejected ==
    ToolRequestSent("scroll_screen") =>
        /\ request.data.d["steps"].n >= 1
        /\ request.data.d["steps"].n <= 10

\* A scroll request sent for arguments the declared inputSchema rejects
SchemaInvalidScrollSent ==
    /\ ToolRequestSent("scroll_screen")
    /\ ~schema_accepts(DeclaredSchema("scroll_screen"), call.arguments)

\* C15: wait_for_element sends the selector always, timeout = 5000 and
\* condition = "visible" when the caller gave none, else what the caller gave.
C15_WaitPayload ==
    ToolRequestSent("wait_for_element") =>
        LET args == call.arguments.d IN
        /\ request.method = "POST"
        /\ request.url = "http://localhost:8080/ui/wait"
        /\ IsDict(request.data)
        /\ Keys(request.data) = {"selector", "timeout", "condition"}
        /\ request.data.d["selector"] = args["selector"]
        /\ request.data.d["timeout"]
              = IF "timeout" \in DOMAIN args THEN args["timeout"] ELSE PyInt(5000)
        /\ request.data.d["condition"]
              = IF "condition" \in DOMAIN args THEN args["condition"]
                ELSE PyStr("visible")

C15_Witness ==
    /\ ToolRequestSent("wait_for_element")
    /\ Keys(call.arguments) = {"selector"}
    /\ request.data.d["timeout"] = PyInt(5000)
    /\ request.data.d["condition"] = PyStr("visible")


\* The dispatch succeeded: the client operation the tool awaited returned
DispatchSucceeded == ToolDone /\ clientReturn.state = "returned"

\* C16: when the dispatch succeeds, handle_call_tool returns exactly one text
\* block, and the JSON of its text is the value the client returned: the same
\* fields with the same values, success among them.
C16_ReplyParsesToClientResult ==
    DispatchSucceeded =>
        /\ OneTextBlock
        /\ ReplyJson = clientReturn.value
        /\ IsDict(clientReturn.value) =>
              /\ IsDict(ReplyJson)
              /\ Keys(ReplyJson) = Keys(clientReturn.value)
              /\ "success" \in Keys(clientReturn.value) =>
                    ReplyJson.d["success"] = clientReturn.value.d["success"]

C16_Witness ==
    /\ DispatchSucceeded
    /\ call.name = "click_element"
    /\ clientReturn.value
          = PyDict(("success" :> PyBool(TRUE)) @@ ("text" :> PyStr(NonAsciiText)))
    /\ reply.value[1].text # JsonDumps(clientReturn.value, FALSE)
    /\ ReplyJson = clientReturn.value


\* The tool that reads what a resource reads
ToolOfResource(uri) ==
    IF uri = "android://ui/current" THEN "get_ui_dump" ELSE "get_device_info"

\* What handle_call_tool does for that tool, and what it returns when the
\* backend gives the outcome this resource read met
ToolTwin == tool_branch(ToolOfResource(call.name), PyDict(EmptyDict))
ToolTwinReply ==
    tool_return(make_request_result(outcome), ToolTwin.ensure_ascii)

\* A resource read that went to the backend and got its outcome
ResourceAnswered ==
    /\ pc = "done"
    /\ call.iface = "resource"
    /\ call.name \in ResourceUris
    /\ clientReturn.state = "returned"

\* C17: a read of android://ui/current sends the request get_ui_dump sends
\* and, for the same backend outcome, returns the very text the tool puts in
\* its content block; likewise android://device/info and get_device_info.
C17_ResourceTextIsToolText ==
    ResourceAnswered =>
        /\ request = ToolTwin.req
        /\ reply.state = "returned"
        /\ ToolTwinReply.state = "returned"
        /\ Len(ToolTwinReply.value) = 1
        /\ reply.value = ToolTwinReply.value[1].text

C17_Witness ==
    /\ ResourceAnswered
    /\ call.name = "android://ui/current"
    /\ clientReturn.value
          = PyDict(("success" :> PyBool(TRUE)) @@ ("text" :> PyStr(NonAsciiText)))
    /\ reply.value = JsonDumps(clientReturn.value, FALSE)
    /\ reply.value # JsonDumps(clientReturn.value, TRUE)

\* The names of the catalog, in the order listed
CatalogNames(catalog) == [i \in 1..Len(catalog) |-> catalog[i].name]

\* The names that could be dispatched on: those declared, those the handler
\* knows, and some it does not
CandidateNames ==
    ToolNames \cup UnknownNames
    \cup {handle_list_tools[i].name : i \in 1..Len(handle_list_tools)}

\* handle_call_tool has a branch for the name: it does not end in the
\* "Unknown tool" error
Dispatches(name) ==
    LET b == tool_branch(name, PyDict(EmptyDict))
    IN  ~b.raised \/ b.exc # unknown_tool(name)

ListDone == pc = "done" /\ call.iface = "list_tools"

\* C18: whatever came before, list_tools returns the 9 declared names, each
\* once, and they are exactly the names handle_call_tool has a branch for.
C18_CatalogIsTheNineTools ==
    ListDone =>
        /\ reply.state = "returned"
        /\ LET names == CatalogNames(reply.value) IN
           /\ Len(names) = 9
           /\ {names[i] : i \in 1..Len(names)}
                 = {"get_ui_dump", "click_element", "input_text",
                    "scroll_screen", "wait_for_element", "press_back",
                    "press_home", "press_recent", "get_device_info"}
           /\ \A i, j \in 1..Len(names) : names[i] = names[j] => i = j
           /\ {n \in CandidateNames : Dispatches(n)}
                 = {names[i] : i \in 1..Len(names)}

C18_Witness ==
    /\ ListDone
    /\ session = "closed"
    /\ Len(reply.value) = 9

C20_CloseIsSafe ==
    [][closeCalls' # closeCalls =>
          /\ held' = held /\ created' = created /\ tasks' = tasks
          /\ held = 0 => sessionCloses' = sessionCloses
          /\ held # 0 => sessionCloses'[held] = 1
          /\ \A i \in SessionIds : sessionCloses'[i] <= 1
          /\ HeldState' \in {"none", "closed"}]_vars

C20_Witness ==
    /\ closeCalls >= 2
    /\ held # 0
    /\ sessionCloses[held] = 1
    /\ \E t \in Tasks : tasks[t] = held


\* The request of a tool call or resource read ended in a transport failure
RequestFailed ==
    /\ pc = "done"
    /\ call.iface \in {"tool", "resource"}
    /\ outcome.kind = "exception"

FailureEnvelope(v) == IsDict(v) /\ v.d["success"] = PyBool(FALSE)

\* C22: a tool call or resource read hands at most one request to the
\* session; when that request fails, it was sent once and the call ends with
\* the one failure envelope built from that failure.
C22_NoRetries ==
    /\ call.iface \in {"tool", "resource"} => sent <= 1
    /\ RequestFailed =>
          /\ sent = 1
          /\ clientReturn = Returned(handle_exception(outcome.exc))
          /\ FailureEnvelope(clientReturn.value)
          /\ reply.state = "returned"
          /\ call.iface = "tool" =>
                OneTextBlock /\ ReplyJson = clientReturn.value
          /\ call.iface = "resource" =>
                JsonLoads(reply.value) = clientReturn.value

C22_Witness ==
    /\ RequestFailed
    /\ call.name = "press_back"
    /\ outcome.exc.cls = "ServerDisconnectedError"
    /\ sent = 1

\* A client operation got a response whose content type is not JSON
NonJsonAnswered ==
    /\ pc = "done"
    /\ outcome.kind = "response"
    /\ outcome.content_type # "application/json"

Endpoint(name) ==
    CASE name = "get_ui_dump" -> <<"GET", "/ui/dump">>
      [] name = "click_element" -> <<"POST", "/ui/click">>
      [] name = "input_text" -> <<"POST", "/ui/input">>
      [] name = "scroll_screen" -> <<"POST", "/ui/scroll">>
      [] name = "wait_for_element" -> <<"POST", "/ui/wait">>
      [] name = "press_back" -> <<"POST", "/device/back">>
      [] name = "press_home" -> <<"POST", "/device/home">>
      [] name = "press_recent" -> <<"POST", "/device/recent">>
      [] name = "get_device_info" -> <<"GET", "/device/info">>

ZeroArgumentTools ==
    {"get_ui_dump", "press_back", "press_home", "press_recent", "get_device_info"}

\* C26: the request of each of the 9 tools has the tool's own method and
\* endpoint under the base URL; for the five tools without arguments it
\* carries no body, whatever the caller passed.
C26_ToolEndpoints ==
    \A name \in ToolNames :
        ToolRequestSent(name) =>
            /\ request.method = Endpoint(name)[1]
            /\ request.url = "http://localhost:8080" \o Endpoint(name)[2]
            /\ name \in ZeroArgumentTools => request.data = PyNone
            /\ name \notin ZeroArgumentTools => IsDict(request.data)

C26_Witness ==
    /\ ToolRequestSent("press_recent")
    /\ call.arguments = PyDict("text" :> PyStr("Submit"))
    /\ request.data = PyNone

\* C27: the total HTTP timeout, in milliseconds, is no less than the largest
\* wait timeout the schema permits, so no less than any permitted timeout a
\* wait_for_element request carries.
C27_HttpTimeoutCoversWait ==
    /\ total_timeout_ms >= wait_for_element_schema.properties["timeout"].range[2]
    /\ ToolRequestSent("wait_for_element")
          /\ schema_accepts(wait_for_element_schema, call.arguments) =>
          total_timeout_ms >= request.data.d["timeout"].n

C27_Witness ==
    /\ ToolRequestSent("wait_for_element")
    /\ schema_accepts(wait_for_element_schema, call.arguments)
    /\ request.data.d["timeout"] = PyInt(30000)
    /\ total_timeout_ms = 30000

\* A tool call that fails before any client operation is called: a name
\* without a branch, or a required argument missing from the bag
DispatchFails(c) ==
    /\ c.iface = "tool"
    /\ \/ c.name \notin ToolNames
       \/ /\ IsDict(c.arguments)
          /\ \/ c.name = "input_text"
                /\ {"text", "selector"} \ DOMAIN c.arguments.d # {}
             \/ c.name = "scroll_screen" /\ "direction" \notin DOMAIN c.arguments.d
             \/ c.name = "wait_for_element"
                /\ "selector" \notin DOMAIN c.arguments.d

\* C29: a tool call that fails at dispatch returns its failure envelope
\* with no request handed to the session and the client's session as it was.
C29_DispatchFailureTouchesNothing ==
    [][pc = "idle" /\ pc' # "idle" /\ DispatchFails(call') =>
          /\ pc' = "done"
          /\ session' = session
          /\ sent' = 0
          /\ request' = NoRequest
          /\ clientReturn' = NotYet
          /\ reply'.state = "returned"
          /\ FailureEnvelope(JsonLoads(reply'.value[1].text))]_vars

C29_Witness ==
    /\ ToolDone
    /\ DispatchFails(call)
    /\ call.name = "wait_for_element"
    /\ session = "open"
    /\ sent = 0
    /\ request = NoRequest

\* C23: given that every request ends with a response, a transport failure
\* or the timeout, a tool call waiting for the backend ends with one returned
\* envelope, and after a call has ended, failed or not, the server is idle
\* again, where any call may enter.
C23_ToolCallsEnd ==
    /\ (call.iface = "tool" /\ pc = "awaiting") ~> (ToolDone /\ OneTextBlock)
    /\ ToolDone ~> pc = "idle"

C23_Witness ==
    /\ ToolDone
    /\ outcome = Failure(TimeoutError)
    /\ OneTextBlock
    /\ FailureEnvelope(ReplyJson)


\* The result task t holds is the envelope of what its own request ended with
OwnResult(t) ==
    results[t] = tool_return(make_request_result(taskOutcome[t]), TRUE)

\* C24: with several tool calls in flight on the one session, in any
\* interleaving, the result of each call is the envelope of the response or
\* failure of its own request, and the end of one call's request leaves the
\* result of every other call, in flight or ended, as it was.
C24_ResultsAreOwn ==
    [][/\ \A t \in Tasks : results'[t] # NotYet =>
              results'[t]
                  = tool_return(make_request_result(taskOutcome'[t]), TRUE)
       /\ \A t, u \in Tasks :
              tasks[t] # 0 /\ tasks'[t] = 0 /\ u # t =>
                  /\ results'[u] = results[u]
                  /\ taskOutcome'[u] = taskOutcome[u]
                  /\ tasks'[u] = tasks[u]]_vars

C24_Witness ==
    /\ tasks[1] # 0 /\ tasks[1] = tasks[3]
    /\ tasks[2] = 0
    /\ taskOutcome[2].kind = "exception"
    /\ OwnResult(2)
    /\ results[1] = NotYet

\* The sessions constructed and not closed
OpenSessions == {i \in 1..created : sessionCloses[i] = 0}

\* C30: after any interleaving of operations and close() calls the client
\* has at most one session that is not closed; a session is constructed only
\* when none is held or the held one is closed; an operation that starts,
\* after a close() too, has its request on an open session, the one held.
C30_OneOpenSession ==
    /\ [](Cardinality(OpenSessions) <= 1)
    /\ [][/\ created' # created =>
              /\ HeldState \in {"none", "closed"}
              /\ created' = created + 1
              /\ held' = created'
          /\ \A t \in Tasks :
                tasks[t] = 0 /\ tasks'[t] # 0 =>
                    /\ tasks'[t] = held'
                    /\ sessionCloses'[held'] = 0
                    /\ HeldState = "open" => held' = held]_vars

C30_Witness ==
    /\ closeCalls >= 1
    /\ created = 2
    /\ sessionCloses[1] = 1
    /\ tasks[1] = 2 /\ tasks[2] = 2
    /\ OpenSessions = {2}


\* C21: when the process has ended after the client's session was opened,
\* whichever way the run loop ended, the session has been closed.
C21_SessionClosedAtExit ==
    phase = "exited" /\ session # "none" => session = "closed"

\* The command line passes no --stdio
WithoutStdio == ~Has(argv, "--stdio")

\* C28: a command line without --stdio, empty or with only --android-host,
\* --android-port or --debug, starts the server on the stdio transport: the
\* process does not end for want of a transport.
C28_StdioIsDefault ==
    phase \in {"serving", "exited"} /\ WithoutStdio =>
        /\ mainArgs.stdio
        /\ stopped # "no_transport"

====
